---- MODULE Spec2Model ----
(***************************************************************************)
(* Model of the resilient reranking pipeline of EverMemOS:                 *)
(*   src/src/agentic_layer/rerank_deepinfra.py  (DeepInfraRerankService)   *)
(* One DeepInfraRerankService instance; several calls may run on it as     *)
(* cooperative tasks.  Steps are the code between two suspension points.   *)
(* Scores are integers (the sentinel -100.0 is -100, the pad 0.0 is 0).    *)
(* Python indices are kept 0-based in the values; sequences are 1-based.   *)
(* A hit is a mapping with an id (its input position) and, possibly, a     *)
(* numeric score.  asyncio.Semaphore is first-come first-served: a task    *)
(* acquires without waiting only when a permit is free and nobody waits.   *)
(*   Spec      one rerank_documents call, every answer of the endpoint     *)
(*   SpecMem   one rerank_memories call                                    *)
(*   SpecConc  several concurrent rerank_documents calls, one semaphore    *)
(*   SpecBatch one rerank_documents call, every retry budget, cancellation *)
(*   SpecStart the start of one call: partition, text extraction           *)
(*   SpecParse one call, answers of both shapes                            *)
(*   SpecLimiter two calls, more batches than permits, cancellation        *)
(*   SpecFair  the calls of SpecLimiter under a fair event loop            *)
(*   src/src/agentic_layer/rerank_service.py  (HybridRerankService)        *)
(* Calls of execute_with_fallback on one controller; the two services are  *)
(* the coroutines handed to it.                                            *)
(*   SpecHybrid      calls one after the other                             *)
(*   SpecHybridConc  calls running concurrently                            *)
(*   SpecControllers two controllers built from one configuration object   *)
(***************************************************************************)
EXTENDS Integers, Sequences, FiniteSets, TLC

VARIABLES
    config,         \* DeepInfraRerankConfig: batch_size, max_retries, max_concurrent_requests
    sem,            \* self._semaphore: the number of free permits
    waiters,        \* self._semaphore: FIFO of the batch tasks <<call, batch>> blocked in acquire
    cpc,            \* per call: where the call is ("idle", "gather", "returned", "raised")
    kind,           \* per call: "documents" (rerank_documents) or "memories" (rerank_memories)
    hits,           \* per call: the hits argument of rerank_memories
    documents,      \* per call: the documents argument of rerank_documents
    top_k,          \* per call: the top_k argument of rerank_memories (None or an integer)
    tasks,          \* per call: the batch tasks handed to asyncio.gather, in batch order
    rerank_result,  \* per call: what rerank_documents returned or raised
    reranked_hits,  \* per call: the list of rerank_memories before the top_k cut
    out,            \* per call: what the call returned to its caller
    hybrid,         \* HybridRerankConfig: enable_fallback, max_custom_failures, _custom_failure_count
    xcalls,         \* per call of execute_with_fallback: where it is and what it did
    services        \* per HybridRerankService: its config object and _current_service

rerankVars == <<config, sem, waiters, cpc, kind, hits, documents, top_k, tasks,
                rerank_result, reranked_hits, out>>

vars == <<rerankVars, hybrid, xcalls, services>>

-----------------------------------------------------------------------------
(* Bounds of the model *)

MaxDocs == 3
MaxHits == 2
MaxConcCalls == 2
MaxRetries == 4
MaxSeqCalls == 4
MaxHybridConc == 2
MaxStartDocs == 4
MaxParseLen == 2
MaxLimiterDocs == 3
MaxCtlCalls == 2

(* Program constants *)

SentinelScore == -100
PadScore == 0
DefaultBatchSize == 10
MissingScore == 0
BackoffBase == 2
DefaultMaxCustomFailures == 3

\* Optional[int]: None is the empty tuple, an integer k is <<k>>
None == <<>>

Some(k) == <<k>>

-----------------------------------------------------------------------------
(* Python helpers *)

Min(a, b) == IF a < b THEN a ELSE b

Max(a, b) == IF a < b THEN b ELSE a

\* dict.get(k, default)
Get(d, k, default) == IF k \in DOMAIN d THEN d[k] ELSE default

\* s[i:j] for 0 <= i <= j
Slice(s, i, j) == SubSeq(s, i + 1, Min(j, Len(s)))

\* [x] * n
Repeat(x, n) == [i \in 1..Max(n, 0) |-> x]

\* All sequences over S of a length in lens
SeqsOf(S, lens) == UNION {[1..n -> S] : n \in lens}

\* mutant: a descending sort made by reversing an ascending one, which
\* reverses the order of equal keys
ReversedOrderDesc(key, i, j) == key[j] > key[i] \/ (key[j] = key[i] /\ j > i)

\* list.sort(key=..., reverse=True) / sorted(..., reverse=True): a stable sort,
\* elements with equal keys keep their relative order.  key[i] is the key of s[i].
StableOrderDesc(key, i, j) == key[j] > key[i] \/ (key[j] = key[i] /\ j < i)

SortDesc(s, key) ==
    LET n == Len(s)
        pos(i) == Cardinality({j \in 1..n : StableOrderDesc(key, i, j)}) + 1
    IN  [p \in 1..n |-> s[CHOOSE i \in 1..n : pos(i) = p]]

-----------------------------------------------------------------------------
(* _parse_response *)

\* mutant: the results are taken in the order of the answer
ResultsAsGiven(results) == results

\* results.sort(key=lambda x: x.get("index", 0)): stable, ascending
SortByIndex(results) ==
    LET n == Len(results)
        k(i) == Get(results[i], "index", 0)
        pos(i) == Cardinality({j \in 1..n : k(j) < k(i) \/ (k(j) = k(i) /\ j < i)}) + 1
    IN  [p \in 1..n |-> results[CHOOSE i \in 1..n : pos(i) = p]]

_parse_response(json_body) ==
    IF "results" \in DOMAIN json_body
    THEN LET results == SortByIndex(json_body.results)
         IN  [i \in 1..Len(results) |-> Get(results[i], "relevance_score", 0)]
    ELSE IF "scores" \in DOMAIN json_body
    THEN json_body.scores
    ELSE <<>>

-----------------------------------------------------------------------------
(* rerank_documents: partition, aggregation, conversion *)

\* mutant: a batch size of zero or less becomes 1
EffectiveBatchSizeOne == IF config.batch_size <= 0 THEN 1 ELSE config.batch_size

\* lines 156-159: the local batch_size; self.config is not written
EffectiveBatchSize == IF config.batch_size <= 0 THEN DefaultBatchSize ELSE config.batch_size

\* range(0, len(documents), batch_size)
NumBatches(docs) == (Len(docs) + EffectiveBatchSize - 1) \div EffectiveBatchSize

\* the b-th value i of range(0, len(documents), batch_size), line 162
RangeStart(b) == (b - 1) * EffectiveBatchSize

\* mutant: every batch takes one document more, the first of the next batch
batchesOverlapping(docs) ==
    [b \in 1..NumBatches(docs) |->
        Slice(docs, RangeStart(b), RangeStart(b) + EffectiveBatchSize + 1)]

\* documents[i : i + batch_size] for every i of the range, lines 161-163
batches(docs) ==
    [b \in 1..NumBatches(docs) |->
        Slice(docs, RangeStart(b), RangeStart(b) + EffectiveBatchSize)]

\* mutant: the number of the batch instead of the index of its first document
start_indexBatchNumber(b) == b - 1

\* start_index = i * batch_size for the i-th batch of enumerate(batches), line 167
start_index(b) == (b - 1) * EffectiveBatchSize

Concat(seqs) ==
    LET F[n \in 0..Len(seqs)] == IF n = 0 THEN <<>> ELSE F[n - 1] \o seqs[n]
    IN  F[Len(seqs)]

\* The scores one gathered batch result contributes (lines 178-186)
BatchScores(result, batch) ==
    IF result.pc = "raised" THEN Repeat(SentinelScore, Len(batch)) ELSE result.scores

AllScores(batch_results, docs) ==
    Concat([b \in 1..Len(batch_results) |-> BatchScores(batch_results[b], batches(docs)[b])])

\* mutant: of too many scores the last num_documents are kept, not the first
PadTruncateKeepLast(scores, num_documents) ==
    LET padded == IF Len(scores) < num_documents
                  THEN scores \o Repeat(PadScore, num_documents - Len(scores))
                  ELSE scores
    IN  SubSeq(padded, Len(padded) - num_documents + 1, Len(padded))

\* mutant: the scores are cut to num_documents but a short list is not padded
PadTruncateNoPad(scores, num_documents) == Slice(scores, 0, num_documents)

\* lines 201-204
PadTruncate(scores, num_documents) ==
    LET padded == IF Len(scores) < num_documents
                  THEN scores \o Repeat(PadScore, num_documents - Len(scores))
                  ELSE scores
    IN  Slice(padded, 0, num_documents)

\* lines 206-211
RankScores(scores) ==
    LET indexed_scores == [i \in 1..Len(scores) |-> <<i - 1, scores[i]>>]
        sorted == SortDesc(indexed_scores, scores)
    IN  [r \in 1..Len(sorted) |->
            [index |-> sorted[r][1], score |-> sorted[r][2], rank |-> r - 1]]

_convert_response_format(all_scores, num_documents) ==
    RankScores(PadTruncate(all_scores, num_documents))

\* gather has handed back every batch result; lines 174-195.
\* A batch task that fell out of its retry loop returned None, and a cancelled
\* one left a CancelledError, which is not an Exception: result.get raises.
RerankDocumentsFinish(batch_results, docs) ==
    IF \E b \in 1..Len(batch_results) : batch_results[b].pc \in {"returned_none", "cancelled"}
    THEN [status |-> "raised", error |-> "AttributeError", results |-> <<>>]
    ELSE [status |-> "ok", error |-> "",
          results |-> _convert_response_format(AllScores(batch_results, docs), Len(docs))]

-----------------------------------------------------------------------------
(* rerank_memories *)

\* mutant: an empty field counts as a text
AlwaysTruthy(x) == TRUE

\* _extract_text_from_hit; a text is [label, body, evidence]
\* `if episode:` and the like: a field that is missing or empty is skipped
Truthy(x) == x # ""

Text(label, body, evidence) == [label |-> label, body |-> body, evidence |-> evidence]

\* mutant: the type tag is not looked at, every hit goes through the generic fields
_extract_text_from_hitUntyped(hit) ==
    LET source == Get(hit, "_source", hit)
        f(k) == Get(source, k, "")
    IN  IF Truthy(f("episode")) THEN Text("", f("episode"), "")
        ELSE IF Truthy(f("atomic_fact")) THEN Text("", f("atomic_fact"), "")
        ELSE IF Truthy(f("foresight")) THEN Text("", f("foresight"), "")
        ELSE IF Truthy(f("content")) THEN Text("", f("content"), "")
        ELSE IF Truthy(f("summary")) THEN Text("", f("summary"), "")
        ELSE IF Truthy(f("subject")) THEN Text("", f("subject"), "")
        ELSE Text("str", "hit", "")

_extract_text_from_hit(hit) ==
    LET source == Get(hit, "_source", hit)
        memory_type == Get(hit, "memory_type", "")
        f(k) == Get(source, k, "")
        foresight == IF Truthy(f("foresight")) THEN f("foresight") ELSE f("content")
    IN  IF memory_type = "episodic_memory" /\ Truthy(f("episode"))
        THEN Text("Episode Memory: ", f("episode"), "")
        ELSE IF memory_type = "foresight" /\ Truthy(foresight)
        THEN Text("Foresight: ", foresight, f("evidence"))
        ELSE IF memory_type = "event_log" /\ Truthy(f("atomic_fact"))
        THEN Text("Atomic Fact: ", f("atomic_fact"), "")
        ELSE IF Truthy(f("episode")) THEN Text("", f("episode"), "")
        ELSE IF Truthy(f("atomic_fact")) THEN Text("", f("atomic_fact"), "")
        ELSE IF Truthy(f("foresight")) THEN Text("", f("foresight"), "")
        ELSE IF Truthy(f("content")) THEN Text("", f("content"), "")
        ELSE IF Truthy(f("summary")) THEN Text("", f("summary"), "")
        ELSE IF Truthy(f("subject")) THEN Text("", f("subject"), "")
        ELSE Text("str", "hit", "")

all_texts(hs) == [i \in 1..Len(hs) |-> _extract_text_from_hit(hs[i])]

\* hit = hits[original_idx].copy(); hit['score'] = score
WithScore(hit, score) ==
    [k \in DOMAIN hit \cup {"score"} |-> IF k = "score" THEN score ELSE hit[k]]

\* mutant: the i-th score is given to the i-th input hit instead of hits[index]
ReorganizeByPosition(hs, results_meta) ==
    [i \in 1..Min(Len(hs), Len(results_meta)) |-> WithScore(hs[i], results_meta[i].score)]

\* lines 301-309
Reorganize(hs, results_meta) ==
    LET kept == SelectSeq(results_meta, LAMBDA item : 0 <= item.index /\ item.index < Len(hs))
    IN  [i \in 1..Len(kept) |-> WithScore(hs[kept[i].index + 1], kept[i].score)]

\* mutant: the score is written into the input hit, not into a copy of it
hits_afterNoCopy(hs, result) ==
    IF result.status = "ok"
    THEN [i \in 1..Len(hs) |->
             IF \E p \in 1..Len(result.results) : result.results[p].index = i - 1
             THEN WithScore(hs[i], result.results[CHOOSE p \in 1..Len(result.results) :
                                                    result.results[p].index = i - 1].score)
             ELSE hs[i]]
    ELSE hs

\* The caller's list after the call: line 307 copies each hit before line 308
\* writes its score, and sorted (line 326) builds a new list, so the list and
\* its hits are as they were.
hits_after(hs, result) == hs

\* mutant: the degraded path returns the hits as given, unsorted
UnsortedHits(hs) == hs

\* sorted(hits, key=lambda x: x.get('score', 0), reverse=True)
sorted_hits(hs) == SortDesc(hs, [i \in 1..Len(hs) |-> Get(hs[i], "score", MissingScore)])

\* the list before the top_k cut: lines 298-309 or line 326
BeforeTopK(hs, result) ==
    IF result.status = "ok" THEN Reorganize(hs, result.results) ELSE sorted_hits(hs)

\* mutant: top_k = 0 cuts the list to nothing (top_k >= 0 for top_k > 0)
TopKNonNegative(xs, k) == IF k # None /\ k[1] >= 0 THEN Slice(xs, 0, k[1]) ELSE xs

\* if top_k is not None and top_k > 0: xs = xs[:top_k]
TopK(xs, k) == IF k # None /\ k[1] > 0 THEN Slice(xs, 0, k[1]) ELSE xs

-----------------------------------------------------------------------------
(* Inputs *)

\* scores the remote endpoint may give a document
ScoreVals == {1, 2}

\* a hit: an id and, possibly, a score it already carries
HitAt(i) == {[id |-> i]} \cup {[id |-> i, score |-> s] : s \in ScoreVals}

HitSeqs(maxlen) ==
    UNION {{h \in [1..n -> UNION {HitAt(i) : i \in 1..n}] : \A i \in 1..n : h[i].id = i}
           : n \in 0..maxlen}

DocSeqs(maxlen) == {Repeat(Text("", "doc", ""), n) : n \in 0..maxlen}

TopKs == {None} \cup {Some(k) : k \in -1..2}

\* what the remote endpoint may answer to a batch of n documents
ScoreLists(n) == SeqsOf(ScoreVals, {m \in {n - 1, n, n + 1} : m >= 0})

\*   exception    session.post or response.json raised an Exception
\*   unparseable  a 200 answer whose body is no JSON (response.json raises)
\*   non2xx       an answer with another status than 200
\*   ok           a 200 answer with a JSON body
Responses(n) ==
    {[kind |-> "exception"], [kind |-> "unparseable"], [kind |-> "non2xx"]}
    \cup {[kind |-> "ok", body |-> [scores |-> s]] : s \in ScoreLists(n)}
    \cup {[kind |-> "ok", body |-> [id |-> "r"]]}

-----------------------------------------------------------------------------
(* State *)

\* trace: what the task did so far, in order (a request posted, its outcome,
\* a sleep and its duration)
\* documents, start_index: the arguments of _send_rerank_request_batch
\* body: the JSON body of the 200 answer the task parsed (line 103)
NoBody == [no_body |-> TRUE]

NewTask ==
    [pc |-> "start", attempt |-> 0, scores |-> <<>>, trace |-> <<>>,
     documents |-> <<>>, start_index |-> 0, body |-> NoBody]

\* batch_tasks: one _send_rerank_request_batch per batch, lines 165-170
batch_tasks(docs) ==
    [b \in 1..Len(batches(docs)) |->
        [NewTask EXCEPT !.documents = batches(docs)[b], !.start_index = start_index(b)]]

\* mutant: no early return for an empty list
NeverEmptyList(xs) == FALSE

\* `if not documents`, `if not hits`, `if not all_texts` (lines 153, 276, 285)
IsEmptyList(xs) == xs = <<>>

\* mutant: the batch results in the order the batches ended (a batch that
\* needed more attempts ends later), as asyncio.as_completed would give them
GatheredByCompletion(ts) ==
    LET n == Len(ts)
        pos(i) == Cardinality({j \in 1..n : ts[j].attempt < ts[i].attempt
                                               \/ (ts[j].attempt = ts[i].attempt /\ j < i)}) + 1
    IN  [p \in 1..n |-> ts[CHOOSE i \in 1..n : pos(i) = p]]

\* asyncio.gather returns the results in the order of its awaitables (line 172)
Gathered(ts) == ts

Event(ev, delay) == [ev |-> ev, delay |-> delay]

NoResult == [status |-> "none", error |-> "", results |-> <<>>]

NoError == [type |-> "", message |-> <<>>]

\* DeepInfraRerankConfig() and HybridRerankConfig() with their defaults
DefaultConfig == [batch_size |-> 10, max_retries |-> 3, max_concurrent_requests |-> 5]

\* os.getenv(name, default)
Getenv(env, name, default) == IF name \in DOMAIN env THEN env[name] ELSE default

\* str.lower() of the values the environment may give
Lower(s) == IF s \in {"true", "True", "TRUE"} THEN "true"
            ELSE IF s \in {"false", "False", "FALSE"} THEN "false"
            ELSE s

\* str(n) and int(s) for the small numbers used here
StrOf(n) == CASE n = 1 -> "1" [] n = 2 -> "2" [] n = 3 -> "3"

IntOf(s) == CASE s = "1" -> 1 [] s = "2" -> 2 [] s = "3" -> 3

\* HybridRerankConfig(enable_fallback=.., max_custom_failures=..) built in the
\* environment env: the dataclass fields (lines 49-53), then __post_init__
\* (lines 55-62), which takes enable_fallback from the environment alone.
\* given_enable_fallback keeps what the constructor was given.
HybridRerankConfig(given_enable_fallback, given_max_custom_failures, env) ==
    [given_enable_fallback |-> given_enable_fallback,
     enable_fallback |-> Lower(Getenv(env, "ENABLE_RERANK_FALLBACK", "true")) = "true",
     max_custom_failures |->
         IntOf(Getenv(env, "MAX_CUSTOM_RERANK_FAILURES", StrOf(given_max_custom_failures))),
     _custom_failure_count |-> 0]

\* an environment that sets neither variable
NoEnv == [PATH |-> "/bin"]

DefaultHybridConfig == HybridRerankConfig(TRUE, DefaultMaxCustomFailures, NoEnv)

TaskDone(t) == t.pc \in {"returned", "returned_none", "raised", "cancelled"}

InitWith(configs, calls) ==
    /\ config \in configs
    /\ sem = config.max_concurrent_requests
    /\ waiters = <<>>
    /\ cpc = [c \in calls |-> "idle"]
    /\ kind = [c \in calls |-> "documents"]
    /\ hits = [c \in calls |-> <<>>]
    /\ documents = [c \in calls |-> <<>>]
    /\ top_k = [c \in calls |-> None]
    /\ tasks = [c \in calls |-> <<>>]
    /\ rerank_result = [c \in calls |-> NoResult]
    /\ reranked_hits = [c \in calls |-> <<>>]
    /\ out = [c \in calls |-> <<>>]

Calls == DOMAIN cpc

-----------------------------------------------------------------------------
(* Operations *)

\* rerank_documents up to its await of asyncio.gather (lines 153-172)
rerank_documents(c, docs) ==
    /\ cpc[c] = "idle"
    /\ kind' = [kind EXCEPT ![c] = "documents"]
    /\ documents' = [documents EXCEPT ![c] = docs]
    /\ IF IsEmptyList(docs)
       THEN /\ cpc' = [cpc EXCEPT ![c] = "returned"]
            /\ rerank_result' = [rerank_result EXCEPT ![c] =
                   [status |-> "ok", error |-> "", results |-> <<>>]]
            /\ UNCHANGED tasks
       ELSE /\ cpc' = [cpc EXCEPT ![c] = "gather"]
            /\ tasks' = [tasks EXCEPT ![c] = batch_tasks(docs)]
            /\ UNCHANGED rerank_result
    /\ UNCHANGED <<hybrid, xcalls, services, config, sem, waiters, hits, top_k, reranked_hits, out>>

\* rerank_memories up to the await of asyncio.gather inside rerank_documents
\* (lines 276-293, then 153-172)
rerank_memories(c, hs, k) ==
    /\ cpc[c] = "idle"
    /\ kind' = [kind EXCEPT ![c] = "memories"]
    /\ hits' = [hits EXCEPT ![c] = hs]
    /\ top_k' = [top_k EXCEPT ![c] = k]
    /\ IF IsEmptyList(hs) \/ IsEmptyList(all_texts(hs))
       THEN /\ cpc' = [cpc EXCEPT ![c] = "returned"]
            /\ out' = [out EXCEPT ![c] = <<>>]
            /\ UNCHANGED <<documents, tasks>>
       ELSE /\ cpc' = [cpc EXCEPT ![c] = "gather"]
            /\ documents' = [documents EXCEPT ![c] = all_texts(hs)]
            /\ tasks' = [tasks EXCEPT ![c] = batch_tasks(all_texts(hs))]
            /\ UNCHANGED out
    /\ UNCHANGED <<hybrid, xcalls, services, config, sem, waiters, rerank_result, reranked_hits>>

\* The task holds a permit and enters `for attempt in range(max_retries)`:
\* with an empty range it leaves the `async with` at once and returns None.
EnterLoop(t) ==
    IF config.max_retries <= 0
    THEN [t EXCEPT !.pc = "returned_none"]
    ELSE [t EXCEPT !.pc = "request", !.attempt = 0,
                   !.trace = Append(@, Event("post", 0))]

\* mutant: a permit too many (sem >= 0 for sem > 0)
CanAcquireOneMore == sem >= 0 /\ waiters = <<>>

\* asyncio.Semaphore.acquire does not wait: a free permit and nobody queued
CanAcquire == sem > 0 /\ waiters = <<>>

\* `async with self._semaphore` (line 98): the task gets a permit at once
Acquire(c, b) ==
    /\ cpc[c] = "gather"
    /\ tasks[c][b].pc = "start"
    /\ CanAcquire
    /\ tasks' = [tasks EXCEPT ![c][b] = EnterLoop(@)]
    /\ sem' = IF config.max_retries <= 0 THEN sem ELSE sem - 1
    /\ UNCHANGED <<hybrid, xcalls, services, config, waiters, cpc, kind, hits, documents, top_k,
                   rerank_result, reranked_hits, out>>

\* `async with self._semaphore` (line 98): the task queues behind the others
Block(c, b) ==
    /\ cpc[c] = "gather"
    /\ tasks[c][b].pc = "start"
    /\ ~CanAcquire
    /\ tasks' = [tasks EXCEPT ![c][b].pc = "waiting"]
    /\ waiters' = Append(waiters, <<c, b>>)
    /\ UNCHANGED <<hybrid, xcalls, services, config, sem, cpc, kind, hits, documents, top_k,
                   rerank_result, reranked_hits, out>>

\* mutant: a released permit goes to the task that queued last
LastWaiter == waiters[Len(waiters)]

\* asyncio.Semaphore wakes the first waiter of its queue (line 98)
NextWaiter == Head(waiters)

\* waiters.remove(fut)
Remove(queue, w) == SelectSeq(queue, LAMBDA v : v # w)

\* a released permit goes to the longest-waiting task
Wake(c, b) ==
    /\ waiters # <<>> /\ NextWaiter = <<c, b>>
    /\ sem > 0
    /\ waiters' = Remove(waiters, <<c, b>>)
    /\ tasks' = [tasks EXCEPT ![c][b] = EnterLoop(@)]
    /\ sem' = IF config.max_retries <= 0 THEN sem ELSE sem - 1
    /\ UNCHANGED <<hybrid, xcalls, services, config, cpc, kind, hits, documents, top_k,
                   rerank_result, reranked_hits, out>>

Pow(base, n) ==
    LET F[k \in 0..n] == IF k = 0 THEN 1 ELSE base * F[k - 1]
    IN  F[n]

\* asyncio.sleep(2**attempt), lines 111 and 119
Backoff(attempt) == Pow(BackoffBase, attempt)

\* mutant: the task also sleeps after its last attempt
HasNextAttemptAlways(t) == t.attempt < config.max_retries

\* `if attempt < self.config.max_retries - 1` (lines 110 and 118)
HasNextAttempt(t) == t.attempt < config.max_retries - 1

\* One attempt ends (lines 100-121): a 200 answer is parsed and returned;
\* a non-200 answer and an Exception are retried after a sleep, or raised as
\* RerankError after the last attempt.  A CancelledError is no Exception:
\* it passes the except clause and ends the task.
AfterResponse(t, resp) ==
    IF resp.kind = "cancelled"
    THEN [t EXCEPT !.pc = "cancelled", !.trace = Append(@, Event("cancelled", 0))]
    ELSE IF resp.kind = "ok"
    THEN [t EXCEPT !.pc = "returned", !.scores = _parse_response(resp.body),
                   !.body = resp.body, !.trace = Append(@, Event("ok", 0))]
    ELSE IF HasNextAttempt(t)
    THEN [t EXCEPT !.pc = "sleep",
                   !.trace = @ \o <<Event("failed", 0), Event("sleep", Backoff(t.attempt))>>]
    ELSE [t EXCEPT !.pc = "raised", !.trace = Append(@, Event("failed", 0))]

\* mutant: the permit is given back before the backoff sleep
HoldsPermitNotInBackoff(t) == t.pc = "request"

\* mutant: a cancelled task leaves without giving its permit back
HoldsPermitWhenCancelled(t) == t.pc \in {"request", "sleep", "cancelled"}

\* The task is inside `async with self._semaphore` (lines 98-121): the loop
\* with its requests and its sleeps.  Leaving the block in any way, by return,
\* by RerankError or by CancelledError, gives the permit back.
HoldsPermit(t) == t.pc \in {"request", "sleep"}

Respond(c, b, resp) ==
    /\ cpc[c] = "gather"
    /\ tasks[c][b].pc = "request"
    /\ tasks' = [tasks EXCEPT ![c][b] = AfterResponse(@, resp)]
    /\ sem' = IF HoldsPermit(AfterResponse(tasks[c][b], resp)) THEN sem ELSE sem + 1
    /\ UNCHANGED <<hybrid, xcalls, services, config, waiters, cpc, kind, hits, documents, top_k,
                   rerank_result, reranked_hits, out>>

\* `continue` (lines 112 and 120): the next value of range(max_retries), or
\* the end of the loop, where the task leaves the `async with` and returns None
NextAttempt(t) ==
    IF t.attempt + 1 < config.max_retries
    THEN [t EXCEPT !.pc = "request", !.attempt = @ + 1,
                   !.trace = Append(@, Event("post", 0))]
    ELSE [t EXCEPT !.pc = "returned_none"]

\* await asyncio.sleep(2**attempt) is over; the loop goes to its next attempt
SleepDone(c, b) ==
    /\ cpc[c] = "gather"
    /\ tasks[c][b].pc = "sleep"
    /\ tasks' = [tasks EXCEPT ![c][b] = NextAttempt(@)]
    /\ sem' = IF HoldsPermit(NextAttempt(tasks[c][b])) THEN sem ELSE sem + 1
    /\ UNCHANGED <<hybrid, xcalls, services, config, waiters, cpc, kind, hits, documents, top_k,
                   rerank_result, reranked_hits, out>>

\* mutant: rerank_memories without its except clause
EndOfCallNoCatch(k, result) == IF result.status = "ok" THEN "returned" ELSE "raised"

\* How the call ends: rerank_memories catches every Exception of its try block
\* (line 323) and returns; rerank_documents lets the exception out.
EndOfCall(k, result) ==
    IF k = "memories" THEN "returned"
    ELSE IF result.status = "ok" THEN "returned" ELSE "raised"

\* asyncio.gather hands back all batch results; the call runs to its end
\* (rerank_documents lines 174-195, rerank_memories lines 295-329)
GatherDone(c) ==
    /\ cpc[c] = "gather"
    /\ \A b \in 1..Len(tasks[c]) : TaskDone(tasks[c][b])
    /\ LET result == RerankDocumentsFinish(Gathered(tasks[c]), documents[c])
       IN  /\ rerank_result' = [rerank_result EXCEPT ![c] = result]
           /\ IF kind[c] = "memories"
              THEN /\ reranked_hits' = [reranked_hits EXCEPT ![c] = BeforeTopK(hits[c], result)]
                   /\ out' = [out EXCEPT ![c] = TopK(BeforeTopK(hits[c], result), top_k[c])]
                   /\ hits' = [hits EXCEPT ![c] = hits_after(hits[c], result)]
              ELSE UNCHANGED <<reranked_hits, out, hits>>
           /\ cpc' = [cpc EXCEPT ![c] = EndOfCall(kind[c], result)]
    /\ UNCHANGED <<hybrid, xcalls, services, config, sem, waiters, kind, documents, top_k, tasks>>

-----------------------------------------------------------------------------
(* Failover Controller: HybridRerankService.execute_with_fallback            *)
(* (src/src/agentic_layer/rerank_service.py).  primary_func and fallback_func *)
(* are the caller's coroutines: each ends with a result or with an Exception *)
(* that carries a message.                                                   *)

PrimaryResult == "custom result"
FallbackResult == "deepinfra result"
PrimaryErrors == {"custom timeout", "custom refused"}
FallbackErrors == {"deepinfra 500", "deepinfra timeout"}

\* the environments a configuration may be constructed in
Envs ==
    {NoEnv,
     [ENABLE_RERANK_FALLBACK |-> "true"],
     [ENABLE_RERANK_FALLBACK |-> "TRUE"],
     [ENABLE_RERANK_FALLBACK |-> "false"],
     [ENABLE_RERANK_FALLBACK |-> "false", MAX_CUSTOM_RERANK_FAILURES |-> "1"],
     [MAX_CUSTOM_RERANK_FAILURES |-> "1"]}

\* the configurations a controller may be built from (lines 36-62)
HybridConfigs ==
    {HybridRerankConfig(e, DefaultMaxCustomFailures, env) : e \in BOOLEAN, env \in Envs}

\* a call of execute_with_fallback that has not started
\*   invoked  the services the call has invoked so far, in order
\*   before   _custom_failure_count when the call started
\*   warned   the "exceeded max failures" warning was logged (lines 165-169)
\*   on              the controller the call runs on (0: none yet)
\*   operation_name  the first argument of execute_with_fallback
\*   given           the arguments of the controller's rerank_memories
\*   received        the arguments each invoked service was called with, in order
NoGiven == [query |-> "", retrieve_response |-> <<>>, instruction |-> None]

NoArgs == [query |-> "", hits |-> <<>>, top_k |-> None, instruction |-> None]

NewCall ==
    [pc |-> "idle", invoked |-> <<>>, before |-> 0, primary_error |-> "",
     fallback_error |-> "", warned |-> FALSE, result |-> "", error |-> NoError,
     on |-> 0, operation_name |-> "", given |-> NoGiven, received |-> <<>>]

\* HybridRerankService(config) with the configuration object `hybrid`
\* (lines 86-97): self.config is that object, not a copy of it
NewService == [config |-> "hybrid", _current_service |-> "custom"]

\* every controller of ids is constructed from the one configuration object
InitHybridWith(configs, slots, ids) ==
    /\ hybrid \in configs
    /\ xcalls = [x \in slots |-> NewCall]
    /\ services = [s \in ids |-> NewService]

Services == DOMAIN services

\* self.config of controller s
ConfigOf(s) == CASE services[s].config = "hybrid" -> hybrid

\* lines 105-114
get_service(s) == services[s]._current_service

\* lines 184-186
get_failure_count(s) == ConfigOf(s)._custom_failure_count

\* The call the lambdas of lines 120-123 make,
\*   service.rerank_memories(query, retrieve_response, instruction),
\* bound to the parameters (query, hits, top_k=None, instruction=None) of the
\* services (rerank_interface.py lines 34-41, rerank_deepinfra.py lines 257-263):
\* the third positional argument is top_k.
rerank_memories_args(query, retrieve_response, instruction) ==
    [query |-> query, hits |-> retrieve_response, top_k |-> instruction, instruction |-> None]

\* what primary_func and fallback_func pass to their service
Passed(operation_name, given) ==
    IF operation_name = "rerank_memories"
    THEN rerank_memories_args(given.query, given.retrieve_response, given.instruction)
    ELSE NoArgs

XCalls == DOMAIN xcalls

XDone(x) == xcalls[x].pc \in {"returned", "raised"}

\* mutant: after max_custom_failures failures the call goes to the fallback first
FirstInvokedByCount ==
    IF hybrid._custom_failure_count >= hybrid.max_custom_failures
    THEN "fallback" ELSE "primary"

\* line 143: the first service of a call is the primary one
FirstInvoked == "primary"

\* execute_with_fallback(operation_name, primary_func, fallback_func) on
\* controller s up to `await primary_func()` (lines 141-143)
StartCall(s, x, operation_name, given) ==
    /\ xcalls[x].pc = "idle"
    /\ xcalls' = [xcalls EXCEPT ![x] = [@ EXCEPT !.pc = FirstInvoked,
                                                 !.invoked = <<FirstInvoked>>,
                                                 !.before = ConfigOf(s)._custom_failure_count,
                                                 !.on = s,
                                                 !.operation_name = operation_name,
                                                 !.given = given,
                                                 !.received = <<Passed(operation_name, given)>>]]
    /\ UNCHANGED <<hybrid, services, rerankVars>>

\* a caller's own pair of coroutines
execute_with_fallback(s, x) == StartCall(s, x, "operation", NoGiven)

\* HybridRerankService.rerank_memories (lines 116-124)
hybrid_rerank_memories(s, x, query, retrieve_response, instruction) ==
    StartCall(s, x, "rerank_memories",
              [query |-> query, retrieve_response |-> retrieve_response,
               instruction |-> instruction])

\* mutant: a success of the primary leaves the counter as it is
CountAfterSuccessKept == hybrid._custom_failure_count

\* line 145
CountAfterSuccess == 0

\* primary_func returned (lines 143-146)
PrimaryReturns(x, result) ==
    /\ xcalls[x].pc = "primary"
    /\ hybrid' = [hybrid EXCEPT !._custom_failure_count = CountAfterSuccess]
    /\ xcalls' = [xcalls EXCEPT ![x] = [@ EXCEPT !.pc = "returned", !.result = result]]
    /\ UNCHANGED <<services, rerankVars>>

\* mutant: the increment writes back the value read when the call started
CountAfterFailureStale(x) == xcalls[x].before + 1

\* line 150: `+= 1` reads and writes without a suspension point in between
CountAfterFailure(x) == hybrid._custom_failure_count + 1

\* mutant: the fallback is tried whatever enable_fallback says
FallbackAlways == TRUE

\* line 158
FallbackEnabled == hybrid.enable_fallback

\* lines 160-162
FallbackDisabledError(primary_error) ==
    [type |-> "RerankError",
     message |-> <<"Custom service failed and fallback is disabled: ", primary_error>>]

\* mutant: after max_custom_failures failures in a row the controller makes
\* the fallback service its current one
CurrentServiceSwitched(x) ==
    IF hybrid._custom_failure_count + 1 >= hybrid.max_custom_failures
    THEN "deepinfra"
    ELSE services[xcalls[x].on]._current_service

\* lines 148-174 log the warning and go on: _current_service is not assigned
CurrentServiceAfterFailure(x) == services[xcalls[x].on]._current_service

\* primary_func raised an Exception (lines 148-174): the counter goes up; the
\* call raises when fallback is disabled, otherwise it awaits fallback_func
PrimaryRaises(x, e) ==
    /\ xcalls[x].pc = "primary"
    /\ hybrid' = [hybrid EXCEPT !._custom_failure_count = CountAfterFailure(x)]
    /\ IF ~FallbackEnabled
       THEN xcalls' = [xcalls EXCEPT ![x] =
                [@ EXCEPT !.pc = "raised", !.primary_error = e,
                          !.error = FallbackDisabledError(e)]]
       ELSE xcalls' = [xcalls EXCEPT ![x] =
                [@ EXCEPT !.pc = "fallback", !.primary_error = e,
                          !.invoked = Append(@, "fallback"),
                          !.received = Append(@, Passed(xcalls[x].operation_name,
                                                        xcalls[x].given)),
                          !.warned = CountAfterFailure(x) >= hybrid.max_custom_failures]]
    /\ services' = [services EXCEPT ![xcalls[x].on]._current_service =
                        CurrentServiceAfterFailure(x)]
    /\ UNCHANGED rerankVars

\* mutant: a success of the fallback resets the counter
CountAfterFallbackReset == CountAfterSuccess

\* lines 174-175: the counter is not written
CountAfterFallback == hybrid._custom_failure_count

\* fallback_func returned (lines 174-175)
FallbackReturns(x, result) ==
    /\ xcalls[x].pc = "fallback"
    /\ hybrid' = [hybrid EXCEPT !._custom_failure_count = CountAfterFallback]
    /\ xcalls' = [xcalls EXCEPT ![x] = [@ EXCEPT !.pc = "returned", !.result = result]]
    /\ UNCHANGED <<services, rerankVars>>

\* mutant: the error names the fallback's failure only
BothFailedErrorFallbackOnly(primary_error, fallback_error) ==
    [type |-> "RerankError",
     message |-> <<"Both custom and fallback services failed. ", "Fallback: ", fallback_error>>]

\* lines 179-182
BothFailedError(primary_error, fallback_error) ==
    [type |-> "RerankError",
     message |-> <<"Both custom and fallback services failed. ",
                   "Custom: ", primary_error, ", Fallback: ", fallback_error>>]

\* fallback_func raised an Exception (lines 177-182)
FallbackRaises(x, e) ==
    /\ xcalls[x].pc = "fallback"
    /\ xcalls' = [xcalls EXCEPT ![x] =
            [@ EXCEPT !.pc = "raised", !.fallback_error = e,
                      !.error = BothFailedError(xcalls[x].primary_error, e)]]
    /\ UNCHANGED <<hybrid, services, rerankVars>>

\* one step of call x after it has started
CallStep(x) ==
    \/ PrimaryReturns(x, PrimaryResult)
    \/ \E e \in PrimaryErrors : PrimaryRaises(x, e)
    \/ FallbackReturns(x, FallbackResult)
    \/ \E e \in FallbackErrors : FallbackRaises(x, e)

-----------------------------------------------------------------------------
(* Specifications *)

\* the controller stands still while a DeepInfraRerankService is examined alone
NoHybrid == InitHybridWith({DefaultHybridConfig}, {}, {})

\* the DeepInfraRerankService stands still while the controller is examined
NoRerank == InitWith({DefaultConfig}, {})

TaskStep(c, b, resps) ==
    \/ Acquire(c, b)
    \/ Block(c, b)
    \/ Wake(c, b)
    \/ SleepDone(c, b)
    \/ \E resp \in resps : Respond(c, b, resp)

batch_len(c, b) == Len(batches(documents[c])[b])

Configs ==
    [batch_size : {0, 1, 2}, max_retries : {0, 1, 2}, max_concurrent_requests : {1, 2}]

\* Spec: rerank_documents, one call on one service
Docs == DocSeqs(MaxDocs)

Init == InitWith(Configs, {1}) /\ NoHybrid

Next ==
    \/ \E c \in Calls, docs \in Docs : rerank_documents(c, docs)
    \/ \E c \in Calls : \E b \in 1..Len(tasks[c]) : TaskStep(c, b, Responses(batch_len(c, b)))
    \/ \E c \in Calls : GatherDone(c)

Spec == Init /\ [][Next]_vars

\* SpecMem: rerank_memories, one call on one service
MemConfigs ==
    [batch_size : {0, 1}, max_retries : {0, 2}, max_concurrent_requests : {1}]

\* the endpoint's answers: a failure, one score per document, one too few, one too many
MemResponses(n) ==
    {[kind |-> "exception"]}
    \cup {[kind |-> "ok", body |-> [scores |-> s]] : s \in SeqsOf(ScoreVals, {n})}
    \cup {[kind |-> "ok", body |-> [scores |-> Repeat(1, m)]] : m \in {n - 1, n + 1}}

MemHits == HitSeqs(MaxHits)

InitMem == InitWith(MemConfigs, {1}) /\ NoHybrid

NextMem ==
    \/ \E c \in Calls, hs \in MemHits, k \in TopKs : rerank_memories(c, hs, k)
    \/ \E c \in Calls : \E b \in 1..Len(tasks[c]) : TaskStep(c, b, MemResponses(batch_len(c, b)))
    \/ \E c \in Calls : GatherDone(c)

SpecMem == InitMem /\ [][NextMem]_vars

\* SpecConc: several rerank_documents calls running concurrently on one service
ConcConfigs ==
    [batch_size : {1}, max_retries : {0, 2}, max_concurrent_requests : {1, 2}]

ConcResponses(n) == {[kind |-> "exception"], [kind |-> "ok", body |-> [scores |-> Repeat(1, n)]]}

\* every call has at most two documents, one batch each
ConcDocs == DocSeqs(2)

InitConc == InitWith(ConcConfigs, 1..MaxConcCalls) /\ NoHybrid

NextConc ==
    \/ \E c \in Calls, docs \in ConcDocs : rerank_documents(c, docs)
    \/ \E c \in Calls : \E b \in 1..Len(tasks[c]) : TaskStep(c, b, ConcResponses(batch_len(c, b)))
    \/ \E c \in Calls : GatherDone(c)

SpecConc == InitConc /\ [][NextConc]_vars

\* SpecBatch: one rerank_documents call of one-document batches on one permit,
\* with every retry budget up to MaxRetries; a request may also be cancelled
BatchConfigs ==
    [batch_size : {1}, max_retries : 0..MaxRetries, max_concurrent_requests : {1}]

BatchResponses(n) ==
    {[kind |-> "exception"], [kind |-> "non2xx"], [kind |-> "cancelled"]}
    \cup {[kind |-> "ok", body |-> [scores |-> s]] : s \in SeqsOf(ScoreVals, {n})}

BatchDocs == DocSeqs(2)

InitBatch == InitWith(BatchConfigs, {1}) /\ NoHybrid

NextBatch ==
    \/ \E c \in Calls, docs \in BatchDocs : rerank_documents(c, docs)
    \/ \E c \in Calls : \E b \in 1..Len(tasks[c]) : TaskStep(c, b, BatchResponses(batch_len(c, b)))
    \/ \E c \in Calls : GatherDone(c)

SpecBatch == InitBatch /\ [][NextBatch]_vars

\* SpecHybrid: calls of execute_with_fallback on one controller, one after
\* the other (a call starts when the calls before it have ended)
InitHybrid == NoRerank /\ InitHybridWith(HybridConfigs, 1..MaxSeqCalls, {1})

NextHybrid ==
    \/ \E s \in Services, x \in XCalls :
           (\A y \in 1..(x - 1) : XDone(y)) /\ execute_with_fallback(s, x)
    \/ \E x \in XCalls : CallStep(x)

SpecHybrid == InitHybrid /\ [][NextHybrid]_vars

\* SpecHybridConc: calls of execute_with_fallback running concurrently on one
\* controller; they interleave at their awaits
InitHybridConc == NoRerank /\ InitHybridWith(HybridConfigs, 1..MaxHybridConc, {1})

NextHybridConc ==
    \/ \E s \in Services, x \in XCalls : execute_with_fallback(s, x)
    \/ \E x \in XCalls : CallStep(x)

SpecHybridConc == InitHybridConc /\ [][NextHybridConc]_vars

\* SpecStart: the start of one call, rerank_documents or rerank_memories, up to
\* its first suspension point, over documents that differ from one another,
\* every batch size, and hits of every shape
StartConfigs ==
    [batch_size : -1..MaxStartDocs, max_retries : {3}, max_concurrent_requests : {5}]

DocA == Text("", "a", "")
DocB == Text("", "b", "")

\* a long list a, b, a, b, ...
LongDocs(n) == [i \in 1..n |-> IF i % 2 = 1 THEN DocA ELSE DocB]

\* every list of a's and b's up to MaxStartDocs, and lists longer than the
\* default batch size
StartDocs ==
    SeqsOf({DocA, DocB}, 0..MaxStartDocs)
    \cup {LongDocs(DefaultBatchSize + k) : k \in 0..MaxStartDocs}
    \cup {LongDocs(2 * DefaultBatchSize + 1)}

\* the fields _extract_text_from_hit reads
TextFields == {"episode", "atomic_fact", "foresight", "content", "evidence", "summary", "subject"}

\* the text a field holds when it is not empty: here the name of the field
FieldText(f) == f

\* the type tags: the three known ones and another one
MemoryTypes == {"episodic_memory", "foresight", "event_log", "profile"}

\* a mapping with the fields S, those of E empty
Source(S, E) == [f \in S |-> IF f \in E THEN "" ELSE FieldText(f)]

Sources == {Source(S, E) : S \in SUBSET TextFields, E \in SUBSET TextFields}

WithField(d, k, v) == [f \in DOMAIN d \cup {k} |-> IF f = k THEN v ELSE d[f]]

\* the fields at the top of the hit, under _source, or under _source with
\* another episode at the top; with or without a type tag
Untyped ==
    Sources
    \cup {[_source |-> src] : src \in Sources}
    \cup {[_source |-> src, episode |-> "top"] : src \in Sources}

RichHits == Untyped \cup {WithField(h, "memory_type", t) : h \in Untyped, t \in MemoryTypes}

\* a few hits to pair: no text, a text at the top, a text under _source
PairHits ==
    {[id |-> 1], [episode |-> FieldText("episode")], [_source |-> [summary |-> FieldText("summary")]],
     [memory_type |-> "event_log", atomic_fact |-> FieldText("atomic_fact")]}

\* one hit of any shape, and the lists of hits with an id and maybe a score
StartHits == {<<h>> : h \in RichHits} \cup HitSeqs(MaxHits) \cup {<<h, g>> : h, g \in PairHits}

InitStart == InitWith(StartConfigs, {1}) /\ NoHybrid

NextStart ==
    \/ \E c \in Calls : cpc[c] = "idle" /\ \E docs \in StartDocs : rerank_documents(c, docs)
    \/ \E c \in Calls : cpc[c] = "idle" /\ \E hs \in StartHits : rerank_memories(c, hs, None)

SpecStart == InitStart /\ [][NextStart]_vars

\* SpecParse: one call of up to two batches on two permits; the endpoint
\* answers 200 with a body of either shape, a `results` list whose items
\* carry any index of the batch, or a flat `scores` list
ParseConfigs ==
    [batch_size : {MaxParseLen}, max_retries : {1}, max_concurrent_requests : {2}]

ParseDocs == DocSeqs(2 * MaxParseLen)

ResultLists(n) == [1..n -> [index : 0..(n - 1), relevance_score : ScoreVals]]

ParseResponses(n) ==
    {[kind |-> "ok", body |-> [results |-> r]] : r \in ResultLists(n)}
    \cup {[kind |-> "ok", body |-> [scores |-> s]] : s \in SeqsOf(ScoreVals, {n})}

InitParse == InitWith(ParseConfigs, {1}) /\ NoHybrid

NextParse ==
    \/ \E c \in Calls, docs \in ParseDocs : rerank_documents(c, docs)
    \/ \E c \in Calls : \E b \in 1..Len(tasks[c]) : Acquire(c, b)
    \/ \E c \in Calls : \E b \in 1..Len(tasks[c]) :
           \E resp \in ParseResponses(batch_len(c, b)) : Respond(c, b, resp)
    \/ \E c \in Calls : GatherDone(c)

SpecParse == InitParse /\ [][NextParse]_vars

\* a batch task is cancelled while it waits for its permit (line 98) or
\* sleeps between two attempts (lines 111 and 119): the CancelledError ends
\* it; a waiting task leaves the queue, a sleeping one leaves the
\* `async with` block
Cancel(c, b) ==
    /\ cpc[c] = "gather"
    /\ tasks[c][b].pc \in {"waiting", "sleep"}
    /\ tasks' = [tasks EXCEPT ![c][b] =
                    [@ EXCEPT !.pc = "cancelled", !.trace = Append(@, Event("cancelled", 0))]]
    /\ waiters' = Remove(waiters, <<c, b>>)
    /\ sem' = IF HoldsPermit(tasks[c][b]) /\ ~HoldsPermit(tasks'[c][b]) THEN sem + 1 ELSE sem
    /\ UNCHANGED <<hybrid, xcalls, services, config, cpc, kind, hits, documents, top_k,
                   rerank_result, reranked_hits, out>>

\* SpecLimiter: two rerank_documents calls on one service, one after the other
\* or at the same time, with more batches than permits; requests fail,
\* succeed or are cancelled, and tasks are cancelled while they wait or sleep
LimiterCalls == {1, 2}

LimiterConfigs ==
    [batch_size : {1}, max_retries : {0, 1, 2}, max_concurrent_requests : {1, 2}]

LimiterResponses(n) ==
    {[kind |-> "exception"], [kind |-> "cancelled"],
     [kind |-> "ok", body |-> [scores |-> Repeat(1, n)]]}

\* the first call has up to MaxLimiterDocs one-document batches, the second
\* at most one
LimiterDocs(c) == IF c = 1 THEN DocSeqs(MaxLimiterDocs) ELSE DocSeqs(1)

InitLimiter == InitWith(LimiterConfigs, LimiterCalls) /\ NoHybrid

NextLimiter ==
    \/ \E c \in Calls : \E docs \in LimiterDocs(c) : rerank_documents(c, docs)
    \/ \E c \in Calls : \E b \in 1..Len(tasks[c]) :
           TaskStep(c, b, LimiterResponses(batch_len(c, b)))
    \/ \E c \in Calls : \E b \in 1..Len(tasks[c]) : Cancel(c, b)
    \/ \E c \in Calls : GatherDone(c)

SpecLimiter == InitLimiter /\ [][NextLimiter]_vars

\* SpecFair: the calls of SpecLimiter without cancellation, every request
\* ending with an answer or an error, under a fair event loop: a task that
\* can run does run (it asks for its permit, takes the permit handed to it,
\* gets the end of its request, wakes from its sleep), and a gather whose
\* tasks are all done returns
FairResponses(n) ==
    {[kind |-> "exception"], [kind |-> "non2xx"],
     [kind |-> "ok", body |-> [scores |-> Repeat(1, n)]]}

FairStep(c, b) ==
    /\ b <= Len(tasks[c])
    /\ TaskStep(c, b, FairResponses(batch_len(c, b)))

InitFair == InitWith(LimiterConfigs, LimiterCalls) /\ NoHybrid

NextFair ==
    \/ \E c \in Calls : \E docs \in LimiterDocs(c) : rerank_documents(c, docs)
    \/ \E c \in Calls : \E b \in 1..MaxLimiterDocs : FairStep(c, b)
    \/ \E c \in Calls : GatherDone(c)

SpecFair ==
    /\ InitFair /\ [][NextFair]_vars
    /\ \A c \in LimiterCalls : \A b \in 1..MaxLimiterDocs : WF_vars(FairStep(c, b))
    /\ \A c \in LimiterCalls : WF_vars(GatherDone(c))

\* lines 188-191
reset_failure_count(s) ==
    /\ hybrid' = [hybrid EXCEPT !._custom_failure_count = 0]
    /\ UNCHANGED <<xcalls, services, rerankVars>>

\* SpecControllers: two controllers constructed from one configuration
\* object; calls of rerank_memories and of execute_with_fallback on either,
\* one after the other
Queries == {"q"}

RetrieveResponses == {<<[id |-> 1]>>}

Instructions == {None, Some("instruction")}

\* the default configuration, with and without fallback
ControllerConfigs ==
    {HybridRerankConfig(TRUE, DefaultMaxCustomFailures, env) :
        env \in {NoEnv, [ENABLE_RERANK_FALLBACK |-> "false"]}}

InitControllers == NoRerank /\ InitHybridWith(ControllerConfigs, 1..MaxCtlCalls, {1, 2})

NextControllers ==
    \/ \E s \in Services, x \in XCalls :
           (\A y \in 1..(x - 1) : XDone(y)) /\ execute_with_fallback(s, x)
    \/ \E s \in Services, x \in XCalls :
           /\ \A y \in 1..(x - 1) : XDone(y)
           /\ \E query \in Queries, retrieve_response \in RetrieveResponses,
                 instruction \in Instructions :
                  hybrid_rerank_memories(s, x, query, retrieve_response, instruction)
    \/ \E s \in Services : reset_failure_count(s)
    \/ \E x \in XCalls : CallStep(x)

SpecControllers == InitControllers /\ [][NextControllers]_vars

-----------------------------------------------------------------------------
(* Claims about rerank_documents (specification Spec) *)

\* a rerank_documents call that has returned
DocsReturned(c) == kind[c] = "documents" /\ cpc[c] = "returned"

Results(c) == rerank_result[c].results

\* the positions of the result list that hold original index i
PlacesOf(c, i) == {p \in 1..Len(Results(c)) : Results(c)[p].index = i}

\* the documents (original indices) of batch b
BatchIndices(c, b) == {start_index(b) + j : j \in 0..(batch_len(c, b) - 1)}

\* C1: when rerank_documents returns, its results hold exactly N entries, and
\* every original index 0..N-1 occurs in them exactly once, whatever the
\* remote endpoint answered (failures, too few or too many scores).
C1_OneResultPerDocument ==
    \A c \in Calls : DocsReturned(c) =>
        /\ Len(Results(c)) = Len(documents[c])
        /\ \A p \in 1..Len(Results(c)) : Results(c)[p].index \in 0..(Len(documents[c]) - 1)
        /\ \A i \in 0..(Len(documents[c]) - 1) : Cardinality(PlacesOf(c, i)) = 1

\* C1 witness: a returned call over several batches, one failed, one with too
\* many scores and one with too few
C1_Witness ==
    \E c \in Calls : DocsReturned(c) /\ Len(documents[c]) = MaxDocs /\
        \E b1, b2, b3 \in 1..Len(tasks[c]) :
            /\ tasks[c][b1].pc = "raised"
            /\ tasks[c][b2].pc = "returned" /\ Len(tasks[c][b2].scores) > batch_len(c, b2)
            /\ tasks[c][b3].pc = "returned" /\ Len(tasks[c][b3].scores) < batch_len(c, b3)

\* C2: the returned results are ordered by score descending, equal scores by
\* ascending original index, and each entry's rank is its 0-based position.
C2_SortedByScoreThenIndex ==
    \A c \in Calls : DocsReturned(c) =>
        /\ \A p \in 1..Len(Results(c)) : Results(c)[p].rank = p - 1
        /\ \A p, q \in 1..Len(Results(c)) : p < q =>
              \/ Results(c)[p].score > Results(c)[q].score
              \/ /\ Results(c)[p].score = Results(c)[q].score
                 /\ Results(c)[p].index < Results(c)[q].index

\* C2 witness: a returned ranking with a tie and with a later document ranked
\* above an earlier one
C2_Witness ==
    \E c \in Calls : DocsReturned(c) /\
        \E p, q \in 1..Len(Results(c)) :
            /\ p < q
            /\ Results(c)[p].score = Results(c)[q].score
            /\ Results(c)[1].index > 0
            /\ Results(c)[1].score > Results(c)[Len(Results(c))].score

\* C3 (as claimed): a batch whose every attempt failed has each of its
\* documents exactly once in the result, with the sentinel score.
C3_FailedBatchHasSentinel ==
    \A c \in Calls : DocsReturned(c) =>
        \A b \in 1..Len(tasks[c]) : tasks[c][b].pc = "raised" =>
            \A i \in BatchIndices(c, b) :
                /\ Cardinality(PlacesOf(c, i)) = 1
                /\ \A p \in PlacesOf(c, i) : Results(c)[p].score = SentinelScore

\* C4 (as claimed): when a batch has exhausted its retries, every other batch
\* has run to completion and each of its documents is ranked with the score
\* its own batch returned for it.
C4_FailureStaysInItsSlice ==
    \A c \in Calls : DocsReturned(c) =>
        \A b \in 1..Len(tasks[c]) : tasks[c][b].pc = "raised" =>
            \A o \in 1..Len(tasks[c]) : (o # b /\ tasks[c][o].pc # "raised") =>
                /\ tasks[c][o].pc = "returned"
                /\ \A j \in 1..batch_len(c, o) :
                      /\ j <= Len(tasks[c][o].scores)
                      /\ \A p \in PlacesOf(c, start_index(o) + j - 1) :
                            Results(c)[p].score = tasks[c][o].scores[j]

-----------------------------------------------------------------------------
(* Claims about rerank_memories (specification SpecMem) *)

\* a rerank_memories call that has returned
MemReturned(c) == kind[c] = "memories" /\ cpc[c] = "returned"

\* every batch of the call ended with every attempt failed
AllBatchesFailed(c) ==
    tasks[c] # <<>> /\ \A b \in 1..Len(tasks[c]) : tasks[c][b].pc = "raised"

\* the score a hit carries, a missing one counted as 0
ScoreOf(h) == IF "score" \in DOMAIN h THEN h.score ELSE 0

\* the number of hits a call over K hits is to return under its top_k
ExpectedLen(c) ==
    IF top_k[c] # None /\ top_k[c][1] > 0
    THEN Min(top_k[c][1], Len(hits[c]))
    ELSE Len(hits[c])

\* xs holds the hits hs, each once, ordered by the score they carry descending,
\* hits of equal score in input order (the id of a hit is its input position)
IsInputSortedByScore(xs, hs) ==
    /\ Len(xs) = Len(hs)
    /\ \A i \in 1..Len(hs) : \E p \in 1..Len(xs) : xs[p] = hs[i]
    /\ \A p, q \in 1..Len(xs) : p < q =>
          \/ ScoreOf(xs[p]) > ScoreOf(xs[q])
          \/ (ScoreOf(xs[p]) = ScoreOf(xs[q]) /\ xs[p].id < xs[q].id)

\* C5 (as claimed): when every attempt of every batch fails, rerank_memories
\* returns the input hits, their scores unchanged, ordered by those scores
\* descending and cut to top_k.
C5_TotalFailureReturnsInputOrder ==
    \A c \in Calls : (MemReturned(c) /\ AllBatchesFailed(c)) =>
        /\ Len(out[c]) = ExpectedLen(c)
        /\ \A p \in 1..Len(out[c]) : \E i \in 1..Len(hits[c]) : out[c][p] = hits[c][i]
        /\ \A p, q \in 1..Len(out[c]) : p < q => ScoreOf(out[c][p]) >= ScoreOf(out[c][q])

\* C6: when rerank_documents raises inside rerank_memories, the call returns
\* (it does not raise), and what it returns is the top_k cut of the input hits
\* ordered by the score they carry descending, a missing score counted as 0,
\* hits of equal score in input order.
C6_DegradedPathSortsByInputScore ==
    \A c \in Calls : (kind[c] = "memories" /\ rerank_result[c].status = "raised") =>
        /\ cpc[c] = "returned"
        /\ IsInputSortedByScore(reranked_hits[c], hits[c])
        /\ out[c] = SubSeq(reranked_hits[c], 1, ExpectedLen(c))

\* C6 witness: rerank_documents raised, the call returned all its hits, and a
\* hit without score, first in the input, came after a hit that carries one
C6_Witness ==
    \E c \in Calls :
        /\ MemReturned(c) /\ rerank_result[c].status = "raised"
        /\ Len(out[c]) = MaxHits
        /\ "score" \notin DOMAIN hits[c][1]
        /\ out[c][1].id # 1

C8_HitsFollowTheRanking ==
    \A c \in Calls : (MemReturned(c) /\ rerank_result[c].status = "ok") =>
        /\ Len(out[c]) = ExpectedLen(c)
        /\ \A p \in 1..Len(out[c]) :
              LET r == Results(c)[p]
                  h == hits[c][r.index + 1]
              IN  /\ DOMAIN out[c][p] = DOMAIN h \cup {"score"}
                  /\ out[c][p].score = r.score
                  /\ \A f \in DOMAIN h \ {"score"} : out[c][p][f] = h[f]

\* C8 witness: a successful call that returned its hits in another order than
\* the input, with a score the input hit did not carry
C8_Witness ==
    \E c \in Calls :
        /\ MemReturned(c) /\ rerank_result[c].status = "ok"
        /\ Len(out[c]) = MaxHits
        /\ out[c][1].id # 1
        /\ \E p \in 1..Len(out[c]) : out[c][p].score # ScoreOf(hits[c][out[c][p].id])
        /\ \E i \in 1..Len(hits[c]) : "score" \notin DOMAIN hits[c][i]

\* C9: for K hits the call returns min(top_k, K) hits when top_k is positive
\* and K hits when top_k is absent, zero or negative; what it returns is the
\* prefix of that length of the untruncated list of K hits, on both paths.
C9_TopKIsAPrefix ==
    \A c \in Calls : MemReturned(c) =>
        /\ Len(reranked_hits[c]) = Len(hits[c])
        /\ Len(out[c]) = ExpectedLen(c)
        /\ out[c] = SubSeq(reranked_hits[c], 1, Len(out[c]))

\* C9 witness: a call over several hits returned fewer of them, cut by top_k
C9_Witness ==
    \E c \in Calls :
        /\ MemReturned(c) /\ Len(hits[c]) = MaxHits
        /\ top_k[c] # None /\ top_k[c][1] > 0
        /\ Len(out[c]) = top_k[c][1] /\ Len(out[c]) < Len(hits[c])

-----------------------------------------------------------------------------
(* Claims about the concurrency limiter (specification SpecConc) *)

\* the batch tasks that have an HTTP request in flight
InFlight ==
    {t \in UNION {{<<c, b>> : b \in 1..Len(tasks[c])} : c \in Calls} :
        tasks[t[1]][t[2]].pc = "request"}

\* C10: at most max_concurrent_requests batches of the service have a request
\* in flight, over all the calls running on it.
C10_InFlightBounded == Cardinality(InFlight) <= config.max_concurrent_requests

\* C10 witness: the limiter is full with batches of two different calls, and a
\* further batch is waiting
C10_Witness ==
    /\ Cardinality(InFlight) = config.max_concurrent_requests
    /\ \E t, u \in InFlight : t[1] # u[1]
    /\ waiters # <<>>

-----------------------------------------------------------------------------
(* Claims about the retry loop of a batch task (specification SpecBatch) *)

\* the batch tasks of all calls
AllTasks == UNION {{<<c, b>> : b \in 1..Len(tasks[c])} : c \in Calls}

\* how many of the first n events of a trace are ev
CountEv(tr, ev, n) == Cardinality({i \in 1..n : tr[i].ev = ev})

\* C11: with max_retries >= 1 a batch posts at most max_retries requests,
\* does nothing more after its first successful one, sleeps 2^attempt after
\* failed attempt number attempt (counted from 0) before it posts again, and
\* reports failure right after its last failed attempt, without a sleep.
C11_RetriesAndBackoff ==
    config.max_retries >= 1 =>
        \A cb \in AllTasks :
            LET t == tasks[cb[1]][cb[2]]
                tr == t.trace
            IN  /\ CountEv(tr, "post", Len(tr)) <= config.max_retries
                /\ \A i \in 1..Len(tr) :
                    /\ tr[i].ev = "ok" => i = Len(tr) /\ t.pc = "returned"
                    /\ (tr[i].ev = "post" /\ i > 1) =>
                           /\ tr[i - 1].ev = "sleep"
                           /\ tr[i - 1].delay = 2 ^ (CountEv(tr, "post", i - 1) - 1)
                           /\ tr[i - 2].ev = "failed"
                    /\ tr[i].ev = "sleep" => CountEv(tr, "post", i) < config.max_retries
                /\ t.pc = "raised" =>
                    /\ tr[Len(tr)].ev = "failed"
                    /\ CountEv(tr, "post", Len(tr)) = config.max_retries

\* a batch failed after four requests and sleeps of 1, 2 and 4
C11_Witness ==
    \E cb \in AllTasks :
        LET t == tasks[cb[1]][cb[2]]
        IN  /\ t.pc = "raised"
            /\ CountEv(t.trace, "post", Len(t.trace)) = 4
            /\ \E i \in 1..Len(t.trace) : t.trace[i] = Event("sleep", 4)

-----------------------------------------------------------------------------
(* Claims about the Failover Controller (SpecHybrid, SpecHybridConc) *)

custom_failure_count == hybrid._custom_failure_count

\* the primary of call x has ended, with a result or with an Exception
PrimaryFailed(x) == xcalls[x].primary_error # ""
PrimaryOk(x) == xcalls[x].pc = "returned" /\ xcalls[x].invoked = <<"primary">>

\* call x returned what the fallback returned
FallbackUsed(x) == xcalls[x].pc = "returned" /\ xcalls[x].invoked = <<"primary", "fallback">>

\* no call after x has started: the state is the one call x left behind
IsLatest(x) == \A y \in XCalls : y > x => xcalls[y].pc = "idle"

Parts(error) == {error.message[i] : i \in 1..Len(error.message)}

\* C12: whatever the calls before and whatever the failure counter, a call
\* invokes the primary first, and the fallback only after the primary raised
\* in that same call.
C12_PrimaryFirst ==
    \A x \in XCalls :
        /\ xcalls[x].pc # "idle" => xcalls[x].invoked[1] = "primary"
        /\ Len(xcalls[x].invoked) > 1 =>
               /\ xcalls[x].invoked = <<"primary", "fallback">>
               /\ PrimaryFailed(x)
        /\ xcalls[x].pc = "fallback" => Len(xcalls[x].invoked) = 2

\* a call that started with the counter above the threshold went to the primary
C12_Witness ==
    \E x \in XCalls :
        /\ xcalls[x].before > hybrid.max_custom_failures
        /\ PrimaryOk(x)

\* the calls in which the primary raised since the last call in which it succeeded
FailedSinceSuccess ==
    {x \in XCalls : PrimaryFailed(x) /\ \A y \in XCalls : PrimaryOk(y) => y < x}

\* C13: with sequential calls the failure counter is the number of calls whose
\* primary raised since the last call whose primary succeeded (or since
\* construction); a step changes it only where a primary ends: +1 when it
\* raised, whatever the fallback does afterwards, 0 when it succeeded.  Three
\* failures in a row with a working fallback give the fallback's result three
\* times, no error, and the counter 3.
C13_CounterCountsConsecutiveFailures ==
    /\ [](custom_failure_count = Cardinality(FailedSinceSuccess))
    /\ [](\A x \in XCalls : FallbackUsed(x) =>
              xcalls[x].result = FallbackResult /\ xcalls[x].error = NoError)
    /\ [][\A x \in XCalls :
            /\ (xcalls[x].pc = "primary" /\ PrimaryFailed(x)') =>
                   custom_failure_count' = custom_failure_count + 1
            /\ (xcalls[x].pc = "primary" /\ PrimaryOk(x)') => custom_failure_count' = 0
            /\ (xcalls[x].pc # "primary" /\ xcalls'[x] # xcalls[x]) =>
                   custom_failure_count' = custom_failure_count]_vars

\* three calls got the fallback's result, the counter went 1, 2, 3, and a
\* fourth call, whose primary succeeded, set it to 0
C13_Witness ==
    /\ \A x \in 1..3 : FallbackUsed(x) /\ xcalls[x].before = x - 1
    /\ xcalls[4].before = 3
    /\ PrimaryOk(4)
    /\ custom_failure_count = 0

\* C14: with fallback disabled a call whose primary raises ends with a
\* RerankError, never invokes the fallback, and leaves the counter one higher
\* than it found it.
C14_FallbackDisabled ==
    ~hybrid.enable_fallback =>
        \A x \in XCalls :
            /\ xcalls[x].invoked \in {<<>>, <<"primary">>}
            /\ PrimaryFailed(x) =>
                   /\ xcalls[x].pc = "raised"
                   /\ xcalls[x].error.type = "RerankError"
                   /\ IsLatest(x) => custom_failure_count = xcalls[x].before + 1

C14_Witness ==
    /\ ~hybrid.enable_fallback
    /\ \E x \in XCalls : PrimaryFailed(x) /\ xcalls[x].before = 1

\* C15: with fallback enabled, a call whose primary raises and whose fallback
\* succeeds returns the fallback's result, and the counter after the call is
\* one more than before it.
C15_FallbackSuccessKeepsCount ==
    hybrid.enable_fallback =>
        \A x \in XCalls :
            FallbackUsed(x) =>
                /\ xcalls[x].result = FallbackResult
                /\ IsLatest(x) => custom_failure_count = xcalls[x].before + 1

C15_Witness ==
    /\ hybrid.enable_fallback
    /\ \E x \in XCalls : FallbackUsed(x) /\ IsLatest(x) /\ xcalls[x].before = 2

\* C16: with fallback enabled a call raises exactly when its primary and its
\* fallback both raised, and the RerankError then holds both their messages.
C16_RaisesIffBothFailed ==
    hybrid.enable_fallback =>
        \A x \in XCalls :
            /\ XDone(x) =>
                   (xcalls[x].pc = "raised" <=>
                        (PrimaryFailed(x) /\ xcalls[x].fallback_error # ""))
            /\ (PrimaryFailed(x) /\ xcalls[x].fallback_error # "") => xcalls[x].pc = "raised"
            /\ xcalls[x].pc = "raised" =>
                   /\ xcalls[x].error.type = "RerankError"
                   /\ xcalls[x].primary_error \in Parts(xcalls[x].error)
                   /\ xcalls[x].fallback_error \in Parts(xcalls[x].error)

C16_Witness ==
    /\ hybrid.enable_fallback
    /\ \E x, y \in XCalls : xcalls[x].pc = "raised" /\ FallbackUsed(y)

\* C17: with concurrent calls no update of the counter is lost: as long as no
\* call saw its primary succeed, the counter is the number of calls whose
\* primary raised, so after m such calls it is m (it starts at 0).
C17_NoLostUpdate ==
    (\A x \in XCalls : ~PrimaryOk(x)) =>
        custom_failure_count = Cardinality({x \in XCalls : PrimaryFailed(x)})

\* two calls that both started at counter 0 have both ended with a failed primary
C17_Witness ==
    /\ \A x \in XCalls : XDone(x) /\ PrimaryFailed(x) /\ xcalls[x].before = 0
    /\ Cardinality(XCalls) >= 2

-----------------------------------------------------------------------------
(* Claims about cancellation, error kinds and malformed answers *)

\* the score the result list of call c gives to original index i
ResultScore(c, i) == Results(c)[CHOOSE p \in PlacesOf(c, i) : TRUE].score

\* one batch of call c was cancelled and all its siblings succeeded
OneCancelledOthersOk(c) ==
    /\ kind[c] = "documents"
    /\ cpc[c] \in {"returned", "raised"}
    /\ Len(tasks[c]) >= 2
    /\ \E b \in 1..Len(tasks[c]) :
           /\ tasks[c][b].pc = "cancelled"
           /\ \A o \in 1..Len(tasks[c]) : o # b => tasks[c][o].pc = "returned"

\* C18: when one batch ends by cancellation and its siblings succeed,
\* rerank_documents returns; the documents of the cancelled batch have the
\* sentinel score and those of the other batches the scores they were given.
C18_CancelledBatchDegrades ==
    \A c \in Calls :
        OneCancelledOthersOk(c) =>
            /\ cpc[c] = "returned"
            /\ \A b \in 1..Len(tasks[c]) : \A i \in BatchIndices(c, b) :
                   /\ PlacesOf(c, i) # {}
                   /\ ResultScore(c, i) =
                          IF tasks[c][b].pc = "cancelled"
                          THEN SentinelScore
                          ELSE tasks[c][b].scores[i - start_index(b) + 1]

\* C19: whatever the configuration and the endpoint, a rerank_documents call
\* that ends with an error ends with a RerankError.
C19_OnlyRerankErrorEscapes ==
    \A c \in Calls :
        (kind[c] = "documents" /\ cpc[c] = "raised") =>
            rerank_result[c].error = "RerankError"

\* a non-2xx answer, an unparseable body, a body with neither results nor scores
MalformedResponses ==
    {[kind |-> "non2xx"], [kind |-> "unparseable"], [kind |-> "ok", body |-> [id |-> "r"]]}

\* C20: an attempt answered by a non-2xx status or a malformed body is a
\* failed attempt: the batch sleeps and tries again while attempts remain,
\* and after its last attempt it has failed and contributes sentinel scores.
C20_MalformedIsFailedAttempt ==
    [][\A c \in Calls : \A b \in 1..Len(tasks[c]) : \A resp \in MalformedResponses :
         Respond(c, b, resp) =>
             IF tasks[c][b].attempt < config.max_retries - 1
             THEN tasks'[c][b].pc = "sleep"
             ELSE /\ tasks'[c][b].pc = "raised"
                  /\ BatchScores(tasks'[c][b], batches(documents[c])[b]) =
                         Repeat(SentinelScore, batch_len(c, b))]_vars

-----------------------------------------------------------------------------
(* Claims about the start of a call (specification SpecStart) *)

\* call c has built its batch tasks and waits for them
Partitioned(c) == cpc[c] = "gather"

\* the documents handed to the batch tasks of call c, batch after batch
SentDocuments(c) == Concat([b \in 1..Len(tasks[c]) |-> tasks[c][b].documents])

\* the batch size rerank_documents works with: 10 when the configured one is
\* not positive
UsedBatchSize == IF config.batch_size <= 0 THEN 10 ELSE config.batch_size

\* C21: the batches are contiguous slices that cover the documents with no gap
\* and no overlap: put one after the other in batch order they are the input
\* list, every batch but the last has batch_size documents, and the last has
\* between 1 and batch_size.
C21_BatchesCoverTheInput ==
    \A c \in Calls :
        Partitioned(c) =>
            /\ SentDocuments(c) = documents[c]
            /\ \A b \in 1..Len(tasks[c]) :
                   LET n == Len(tasks[c][b].documents)
                   IN  IF b < Len(tasks[c]) THEN n = UsedBatchSize
                       ELSE 1 <= n /\ n <= UsedBatchSize

\* two batches of 3 and 1 documents that differ from one another
C21_Witness ==
    \E c \in Calls :
        /\ Partitioned(c)
        /\ kind[c] = "documents"
        /\ Len(tasks[c]) = 2
        /\ tasks[c][2].documents = <<DocA>>
        /\ documents[c] = <<DocA, DocB, DocB, DocA>>

\* the sum of the sizes of the first n batches of call c
SizeOfBatchesBefore(c, b) == Len(Concat([o \in 1..(b - 1) |-> tasks[c][o].documents]))

\* C30: the start_index handed to the scoring call of a batch is the sum of the
\* sizes of the batches before it, and the document at that index of the input
\* is the first document of the batch.
C30_StartIndexIsOffset ==
    \A c \in Calls :
        Partitioned(c) =>
            \A b \in 1..Len(tasks[c]) :
                /\ tasks[c][b].start_index = SizeOfBatchesBefore(c, b)
                /\ documents[c][tasks[c][b].start_index + 1] = tasks[c][b].documents[1]

\* a third batch that starts at index 20, with the default batch size
C30_Witness ==
    \E c \in Calls :
        /\ Partitioned(c)
        /\ config.batch_size <= 0
        /\ Len(tasks[c]) = 3
        /\ tasks[c][3].start_index = 20

\* C22: a call with an empty list has returned an empty result at once: it
\* made no batch task, so it posted nothing and holds no permit, and nothing
\* waits for the semaphore.
C22_EmptyInputReturnsAtOnce ==
    \A c \in Calls :
        /\ (cpc[c] # "idle" /\ kind[c] = "documents" /\ documents[c] = <<>>) =>
               /\ cpc[c] = "returned"
               /\ rerank_result[c].status = "ok" /\ rerank_result[c].results = <<>>
               /\ tasks[c] = <<>>
               /\ sem = config.max_concurrent_requests /\ waiters = <<>>
        /\ (cpc[c] # "idle" /\ kind[c] = "memories" /\ hits[c] = <<>>) =>
               /\ cpc[c] = "returned"
               /\ out[c] = <<>>
               /\ tasks[c] = <<>> /\ documents[c] = <<>>
               /\ sem = config.max_concurrent_requests /\ waiters = <<>>

C22_Witness ==
    \E c \in Calls : cpc[c] = "returned" /\ kind[c] = "memories" /\ hits[c] = <<>>

-----------------------------------------------------------------------------
(* Claims about the input of rerank_memories (specification SpecMem) *)

C25_GivenOptionIsUsed ==
    ~hybrid.given_enable_fallback =>
        \A x \in XCalls : xcalls[x].invoked \in {<<>>, <<"primary">>}

-----------------------------------------------------------------------------
(* Claims about the aggregation of batch scores (Spec, SpecConc) *)

\* C26: every batch result that rerank_documents takes as a success has as
\* many scores as the batch has documents.
C26_SuccessHasOneScorePerDocument ==
    \A c \in Calls :
        DocsReturned(c) =>
            \A b \in 1..Len(tasks[c]) :
                tasks[c][b].pc = "returned" =>
                    Len(tasks[c][b].scores) = Len(tasks[c][b].documents)

\* C27: in the final ranking the score at original index start_index(b) + j is
\* the one batch b's own answer gave for position j, or the sentinel when
\* batch b failed, whatever number of scores the other batches returned.
C27_ScoresStayAtTheirIndex ==
    \A c \in Calls :
        DocsReturned(c) =>
            \A b \in 1..Len(tasks[c]) : \A j \in 0..(Len(tasks[c][b].documents) - 1) :
                LET i == tasks[c][b].start_index + j
                    t == tasks[c][b]
                IN  /\ t.pc = "raised" => ResultScore(c, i) = SentinelScore
                    /\ (t.pc = "returned" /\ j < Len(t.scores)) =>
                           ResultScore(c, i) = t.scores[j + 1]

\* the concatenated scores of call c before padding and cutting
Concatenated(c) == AllScores(tasks[c], documents[c])

\* C29: with fewer concatenated scores than documents the missing trailing
\* documents get 0.0; with more, only the first N scores are kept; a kept score
\* is the concatenated score of its index, unaltered.
C29_PadAndTruncate ==
    \A c \in Calls :
        DocsReturned(c) =>
            /\ Len(Results(c)) = Len(documents[c])
            /\ \A i \in 0..(Len(documents[c]) - 1) :
                   ResultScore(c, i) =
                       IF i < Len(Concatenated(c)) THEN Concatenated(c)[i + 1] ELSE 0

\* two scores came for three documents: the third got 0.0, the others kept theirs
C29_Witness ==
    \E c \in Calls :
        /\ DocsReturned(c)
        /\ Len(documents[c]) = 3
        /\ Concatenated(c) = <<2, 1>>
        /\ ResultScore(c, 2) = 0

\* what a batch ended with: its scores or its failure, not how it got there
Outcome(t) == [pc |-> t.pc, scores |-> t.scores]

SameOutcomes(c1, c2) ==
    /\ documents[c1] = documents[c2]
    /\ Len(tasks[c1]) = Len(tasks[c2])
    /\ \A b \in 1..Len(tasks[c1]) : Outcome(tasks[c1][b]) = Outcome(tasks[c2][b])

CallEnded(c) == kind[c] = "documents" /\ cpc[c] \in {"returned", "raised"}

-----------------------------------------------------------------------------
(* Claims about the batch size and the extracted text (specification SpecStart) *)

\* the slices docs[0:n], docs[n:2n], ... of a list
Chunks(docs, n) ==
    [b \in 1..((Len(docs) + n - 1) \div n) |->
        SubSeq(docs, (b - 1) * n + 1, Min(b * n, Len(docs)))]

\* C31: with a configured batch_size of zero or less, a call makes exactly the
\* batches a batch_size of 10 makes, it does not end with an error, and no
\* step changes the configuration.
C31_NonPositiveBatchSizeIsTen ==
    /\ [](\A c \in Calls :
            (kind[c] = "documents" /\ cpc[c] # "idle" /\ config.batch_size <= 0) =>
                /\ cpc[c] # "raised"
                /\ rerank_result[c].status # "raised"
                /\ [b \in 1..Len(tasks[c]) |-> tasks[c][b].documents]
                       = Chunks(documents[c], 10))
    /\ [][config' = config]_vars

\* a negative batch_size and 21 documents: batches of 10, 10 and 1
C31_Witness ==
    \E c \in Calls :
        /\ Partitioned(c)
        /\ kind[c] = "documents"
        /\ config.batch_size < 0
        /\ Len(documents[c]) = 21
        /\ Len(tasks[c]) = 3
        /\ Len(tasks[c][3].documents) = 1

\* the mapping the fields of a hit are read from, and a field of it
C36_Source(hit) == IF "_source" \in DOMAIN hit THEN hit._source ELSE hit

C36_Field(hit, f) == IF f \in DOMAIN C36_Source(hit) THEN C36_Source(hit)[f] ELSE ""

C36_Tag(hit) == IF "memory_type" \in DOMAIN hit THEN hit.memory_type ELSE ""

\* the text of the rule of the hit's type; its body is empty when the rule
\* yields nothing
C36_Typed(hit) ==
    CASE C36_Tag(hit) = "episodic_memory" ->
             [label |-> "Episode Memory: ", body |-> C36_Field(hit, "episode"), evidence |-> ""]
      [] C36_Tag(hit) = "foresight" ->
             [label |-> "Foresight: ",
              body |-> IF C36_Field(hit, "foresight") # "" THEN C36_Field(hit, "foresight")
                       ELSE C36_Field(hit, "content"),
              evidence |-> C36_Field(hit, "evidence")]
      [] C36_Tag(hit) = "event_log" ->
             [label |-> "Atomic Fact: ", body |-> C36_Field(hit, "atomic_fact"), evidence |-> ""]
      [] OTHER -> [label |-> "", body |-> "", evidence |-> ""]

C36_Order == <<"episode", "atomic_fact", "foresight", "content", "summary", "subject">>

\* the first field of the fixed order that is not empty, "" when all are
C36_FirstNonEmpty(hit) ==
    LET filled == {i \in 1..Len(C36_Order) : C36_Field(hit, C36_Order[i]) # ""}
    IN  IF filled = {} THEN ""
        ELSE C36_Field(hit, C36_Order[CHOOSE i \in filled : \A j \in filled : i <= j])

\* C36: the text sent for a hit is the text of its type's rule when that rule
\* yields one; otherwise the first non-empty field in the order episode,
\* atomic_fact, foresight, content, summary, subject; otherwise the printed
\* hit.  Equal hits of one call get equal texts.
C36_TypedRuleThenFixedOrder ==
    \A c \in Calls :
        (kind[c] = "memories" /\ Partitioned(c)) =>
            /\ \A i \in 1..Len(hits[c]) :
                   LET hit == hits[c][i]
                       d == documents[c][i]
                   IN  IF C36_Typed(hit).body # ""
                       THEN d = C36_Typed(hit)
                       ELSE IF C36_FirstNonEmpty(hit) # ""
                       THEN d = [label |-> "", body |-> C36_FirstNonEmpty(hit), evidence |-> ""]
                       ELSE d.label = "str"
            /\ \A i, j \in 1..Len(hits[c]) :
                   hits[c][i] = hits[c][j] => documents[c][i] = documents[c][j]

\* a foresight hit without foresight text: its content, with the evidence;
\* an episodic hit without episode: its first generic field, the atomic_fact
C36_Witness ==
    \E c \in Calls :
        /\ kind[c] = "memories" /\ Partitioned(c)
        /\ C36_Tag(hits[c][1]) = "foresight"
        /\ C36_Field(hits[c][1], "foresight") = ""
        /\ C36_Field(hits[c][1], "episode") # ""
        /\ documents[c][1] = [label |-> "Foresight: ", body |-> FieldText("content"),
                              evidence |-> FieldText("evidence")]

-----------------------------------------------------------------------------
(* Claims about the parsed answer (specification SpecParse) *)

\* a batch task that returned after parsing a body with the key k
ParsedBody(c, b, k) == tasks[c][b].pc = "returned" /\ k \in DOMAIN tasks[c][b].body

\* the index values of a results list are a permutation of 0..n-1
IsPermutation(results) ==
    /\ {results[p].index : p \in 1..Len(results)} = 0..(Len(results) - 1)
    /\ \A p, q \in 1..Len(results) : results[p].index = results[q].index => p = q

\* the relevance_score of the item with index i
ScoreAtIndex(results, i) ==
    results[CHOOSE p \in 1..Len(results) : results[p].index = i].relevance_score

\* C32: from a results list whose index values are a permutation of 0..n-1,
\* in any order, a batch gets the score list that holds at position i the
\* relevance_score of the item with index i; a batch that is answered with
\* those values as a flat scores list in input order gets the same list.
C32_BothShapesParseAlike ==
    \A c \in Calls : \A b \in 1..Len(tasks[c]) :
        (ParsedBody(c, b, "results") /\ IsPermutation(tasks[c][b].body.results)) =>
            LET results == tasks[c][b].body.results
                n == Len(results)
            IN  /\ Len(tasks[c][b].scores) = n
                /\ \A i \in 0..(n - 1) : tasks[c][b].scores[i + 1] = ScoreAtIndex(results, i)
                /\ \A o \in 1..Len(tasks[c]) :
                       (/\ ParsedBody(c, o, "scores")
                        /\ tasks[c][o].body.scores =
                               [i \in 1..n |-> ScoreAtIndex(results, i - 1)]) =>
                           tasks[c][o].scores = tasks[c][b].scores

\* one batch got its results last index first, with different scores, the
\* other the same values as a flat list: both hold the same scores
C32_Witness ==
    \E c \in Calls : \E b, o \in 1..Len(tasks[c]) :
        /\ ParsedBody(c, b, "results") /\ ParsedBody(c, o, "scores")
        /\ Len(tasks[c][b].body.results) = MaxParseLen
        /\ tasks[c][b].body.results[1].index = MaxParseLen - 1
        /\ tasks[c][b].body.results[MaxParseLen].index = 0
        /\ IsPermutation(tasks[c][b].body.results)
        /\ tasks[c][b].scores[1] # tasks[c][b].scores[MaxParseLen]
        /\ tasks[c][o].body.scores = tasks[c][b].scores
        /\ tasks[c][o].scores = tasks[c][b].scores

-----------------------------------------------------------------------------
(* Claims about the permits of the limiter (specification SpecLimiter) *)

PcOf(cb) == tasks[cb[1]][cb[2]].pc

\* no rerank_documents call is in progress on the service
NoCallInProgress == \A c \in Calls : cpc[c] # "gather"

\* C33: whenever no rerank_documents call is in progress, every permit of the
\* limiter is free and nothing waits for one, whether the batches of the
\* calls that have ended succeeded, failed for good or were cancelled.
C33_NoPermitLeftBehind ==
    NoCallInProgress => (sem = config.max_concurrent_requests /\ waiters = <<>>)

\* both calls have ended; of their batches one succeeded, one exhausted its
\* retries, one was cancelled during its request and one while it waited
C33_Witness ==
    /\ \A c \in Calls : cpc[c] \in {"returned", "raised"}
    /\ \E s, f, r, w \in AllTasks :
        /\ PcOf(s) = "returned"
        /\ PcOf(f) = "raised"
        /\ PcOf(r) = "cancelled" /\ tasks[r[1]][r[2]].trace # <<Event("cancelled", 0)>>
        /\ PcOf(w) = "cancelled" /\ tasks[w[1]][w[2]].trace = <<Event("cancelled", 0)>>

\* the tasks that wait for a permit
Waiting == {cb \in AllTasks : PcOf(cb) = "waiting"}

\* task cb gets its permit in this step
Admitted(cb) ==
    /\ PcOf(cb) \in {"start", "waiting"}
    /\ tasks'[cb[1]][cb[2]].pc \in {"request", "returned_none"}

InRetryLoop == {cb \in AllTasks : PcOf(cb) \in {"request", "sleep"}}

\* C38: a batch holds its permit from its first attempt to its last, the
\* sleeps between the attempts included: at most max_concurrent_requests
\* batches are in their retry loop, and while that many are, sleepers
\* counted, no further batch starts its first attempt.
C38_PermitHeldAcrossBackoff ==
    /\ [](/\ Cardinality(InRetryLoop) <= config.max_concurrent_requests
          /\ sem = config.max_concurrent_requests - Cardinality(InRetryLoop))
    /\ [][\A cb \in AllTasks :
            (PcOf(cb) \in {"start", "waiting"} /\ tasks'[cb[1]][cb[2]].pc = "request") =>
                Cardinality(InRetryLoop) < config.max_concurrent_requests]_vars

\* every permit is held by a sleeping batch and another batch waits
C38_Witness ==
    /\ InRetryLoop # {}
    /\ \A cb \in InRetryLoop : PcOf(cb) = "sleep"
    /\ Cardinality(InRetryLoop) = config.max_concurrent_requests
    /\ sem = 0
    /\ Waiting # {}

-----------------------------------------------------------------------------
(* Claims about termination (specification SpecFair) *)

\* C39 (as claimed): when every request ends and the event loop is fair,
\* every rerank_documents call that has started eventually returns.
C39_EveryCallReturns ==
    \A c \in LimiterCalls : (cpc[c] = "gather") ~> (cpc[c] = "returned")

-----------------------------------------------------------------------------
(* Claims about controller instances (specifications SpecControllers, SpecHybrid) *)

\* C35 (as claimed): a step of a call on one controller leaves the failure
\* count that every other controller reports as it was, also when the
\* controllers were constructed from the same configuration object.
C35_CounterScopedToOneController ==
    [][\A s \in Services :
          (\E x \in XCalls : xcalls'[x] # xcalls[x] /\ xcalls'[x].on # s) =>
              get_failure_count(s)' = get_failure_count(s)]_vars

\* C37 (as claimed): every service that a rerank_memories call of the
\* controller invokes receives the call's query, hits and instruction, and no
\* top_k.
C37_InstructionReachesProvider ==
    \A x \in XCalls :
        xcalls[x].operation_name = "rerank_memories" =>
            \A k \in 1..Len(xcalls[x].received) :
                /\ xcalls[x].received[k].query = xcalls[x].given.query
                /\ xcalls[x].received[k].hits = xcalls[x].given.retrieve_response
                /\ xcalls[x].received[k].instruction = xcalls[x].given.instruction
                /\ xcalls[x].received[k].top_k = None

====
